---- MODULE Spec2Model ----
(***************************************************************************)
(* Model of evaluate-predictions/pick-interesting-compounds.ipynb: the     *)
(* notebook loads a table of predictions, tags every row with its chemical *)
(* system, keeps the most stable row of every system, enumerates the       *)
(* candidate systems of a given order and runs a sequence of filters that  *)
(* append their top compounds to list_of_interesting_compounds.            *)
(*                                                                         *)
(* A Python str is a sequence of one-character strings, so that the        *)
(* regular expression, sorted() and ''.join() are computed character by    *)
(* character.  A DataFrame is a sequence of records; the field "index" is  *)
(* the row label pandas keeps through sort_values and drop_duplicates.     *)
(***************************************************************************)
EXTENDS Integers, Sequences, FiniteSets, TLC

VARIABLES pc, dl_predictions, dl_best, dl_again, element_list, order,
          systems, list_of_interesting_compounds, printed, call, mask

vars == <<pc, dl_predictions, dl_best, dl_again, element_list, order,
          systems, list_of_interesting_compounds, printed, call, mask>>

(***************************************************************************)
(* Bounds of the model.                                                    *)
(***************************************************************************)
MaxLen == 3
MaxRows == 3
MaxStab == 1
MaxCalls == 3

(***************************************************************************)
(* Characters and strings.                                                 *)
(***************************************************************************)
UpperSeq == <<"A", "B", "C", "D", "E", "F", "G", "H", "I", "J", "K", "L", "M",
             "N", "O", "P", "Q", "R", "S", "T", "U", "V", "W", "X", "Y", "Z">>
LowerSeq == <<"a", "b", "c", "d", "e", "f", "g", "h", "i", "j", "k", "l", "m",
             "n", "o", "p", "q", "r", "s", "t", "u", "v", "w", "x", "y", "z">>
DigitSeq == <<"0", "1", "2", "3", "4", "5", "6", "7", "8", "9">>

\* [A-Z] and [a-z] of elem_re, and the digits of a composition
Upper == {UpperSeq[i] : i \in DOMAIN UpperSeq}
Lower == {LowerSeq[i] : i \in DOMAIN LowerSeq}
Digit == {DigitSeq[i] : i \in DOMAIN DigitSeq}

PositionIn(seq, c) == CHOOSE i \in DOMAIN seq : seq[i] = c

\* ord(c): the code point Python compares characters by
ord(c) ==
  IF c \in Digit THEN 47 + PositionIn(DigitSeq, c)
  ELSE IF c \in Upper THEN 64 + PositionIn(UpperSeq, c)
  ELSE 96 + PositionIn(LowerSeq, c)

Range(s) == {s[i] : i \in DOMAIN s}

\* a < b for two Python strings: code point by code point, a proper prefix first
RECURSIVE str_lt(_, _)
str_lt(a, b) ==
  IF b = <<>> THEN FALSE
  ELSE IF a = <<>> THEN TRUE
  ELSE IF Head(a) = Head(b) THEN str_lt(Tail(a), Tail(b))
  ELSE ord(Head(a)) < ord(Head(b))

\* elem_re = re.compile('[A-Z][a-z]?'); elem_re.findall(s)
RECURSIVE findall(_)
findall(s) ==
  IF s = <<>> THEN <<>>
  ELSE IF Head(s) \in Upper
       THEN IF Len(s) >= 2 /\ s[2] \in Lower
            THEN <<SubSeq(s, 1, 2)>> \o findall(SubSeq(s, 3, Len(s)))
            ELSE <<SubSeq(s, 1, 1)>> \o findall(Tail(s))
       ELSE findall(Tail(s))

\* list(S) for a Python set S: its elements, each once, in some order
RECURSIVE set_list(_)
set_list(S) ==
  IF S = {} THEN <<>>
  ELSE LET x == CHOOSE y \in S : TRUE IN <<x>> \o set_list(S \ {x})

\* insertion of x into the sorted list xs, after the elements that are not greater
RECURSIVE insort(_, _)
insort(xs, x) ==
  IF xs = <<>> THEN <<x>>
  ELSE IF str_lt(x, Head(xs)) THEN <<x>> \o xs
  ELSE <<Head(xs)>> \o insort(Tail(xs), x)

\* sorted(xs) on a list of strings
RECURSIVE sorted(_)
sorted(xs) ==
  IF xs = <<>> THEN <<>>
  ELSE insort(sorted(SubSeq(xs, 1, Len(xs) - 1)), xs[Len(xs)])

\* ''.join(xs)
RECURSIVE join(_)
join(xs) == IF xs = <<>> THEN <<>> ELSE Head(xs) \o join(Tail(xs))

\* get_elems without set(): every occurrence of a symbol is kept
get_elems_no_set(s) == join(sorted(findall(s)))

\* get_elems(s) = ''.join(sorted(set(elem_re.findall(s)))); the symbols of a
\* set are distinct, so sorted() returns the same list whatever the order the
\* set is iterated in
get_elems(s) == join(sorted(set_list(Range(findall(s)))))

(***************************************************************************)
(* Tables.                                                                 *)
(***************************************************************************)
\* all strings of at most n characters over the alphabet A
RECURSIVE StringsUpTo(_, _)
StringsUpTo(A, n) ==
  IF n = 0 THEN {<<>>}
  ELSE LET shorter == StringsUpTo(A, n - 1)
       IN shorter \cup {<<c>> \o s : c \in A, s \in {t \in shorter : Len(t) = n - 1}}

\* the tables of 1..n rows whose cells are drawn from Comps and 0..MaxStab,
\* labelled 0, 1, ... as read_csv labels them
TablesOf(Comps, lens) ==
  UNION {
    { [i \in 1..n |-> [index |-> i - 1,
                       composition |-> c[i],
                       stability_predicted |-> st[i]]] :
        c \in [1..n -> Comps], st \in [1..n -> 0..MaxStab] }
    : n \in lens }

\* data['system'] = data['composition'].apply(get_elems)
TagSystem ==
  /\ pc = "loaded"
  /\ dl_predictions' =
       [i \in DOMAIN dl_predictions |->
          [index |-> dl_predictions[i].index,
           composition |-> dl_predictions[i].composition,
           stability_predicted |-> dl_predictions[i].stability_predicted,
           system |-> get_elems(dl_predictions[i].composition)]]
  /\ pc' = "tagged"
  /\ UNCHANGED <<dl_best, dl_again, element_list, order, systems,
                 list_of_interesting_compounds, printed, call, mask>>

(***************************************************************************)
(* get_most_stable.                                                        *)
(***************************************************************************)
\* the rows of t at the positions in S, in the order of t
RECURSIVE RowsAt(_, _)
RowsAt(t, S) ==
  IF t = <<>> THEN <<>>
  ELSE LET n == Len(t)
           front == RowsAt(SubSeq(t, 1, n - 1), S)
       IN IF n \in S THEN Append(front, t[n]) ELSE front

\* sort_values in descending order
sort_values_descending(data) ==
  { [i \in DOMAIN data |-> data[p[i]]] :
      p \in { q \in Permutations(DOMAIN data) :
                \A i, j \in DOMAIN data :
                  i < j => data[q[i]].stability_predicted
                             >= data[q[j]].stability_predicted } }

\* data.sort_values('stability_predicted', ascending=True): kind is left at its
\* default 'quicksort', which is not stable, so every arrangement of the rows
\* in non-decreasing order of the column is a possible result
sort_values(data) ==
  { [i \in DOMAIN data |-> data[p[i]]] :
      p \in { q \in Permutations(DOMAIN data) :
                \A i, j \in DOMAIN data :
                  i < j => data[q[i]].stability_predicted
                             <= data[q[j]].stability_predicted } }

\* drop_duplicates('system', keep='last')
drop_duplicates_keep_last(t) ==
  RowsAt(t, { i \in DOMAIN t :
               \A j \in DOMAIN t : j > i => t[j].system # t[i].system })

\* t.drop_duplicates('system', keep='first')
drop_duplicates(t) ==
  RowsAt(t, { i \in DOMAIN t :
               \A j \in DOMAIN t : j < i => t[j].system # t[i].system })

\* get_most_stable without drop_duplicates: every row is kept
get_most_stable_keep_all(data) == sort_values(data)

\* get_most_stable without the sort: the first row of every system as read
get_most_stable_unsorted(data) == { drop_duplicates(data) }

\* get_most_stable(data): the tables it can return
get_most_stable(data) == { drop_duplicates(s) : s \in sort_values(data) }

\* dl_best = get_most_stable(dl_predictions)
GetMostStable ==
  /\ pc = "tagged"
  /\ \E best \in get_most_stable(dl_predictions) : dl_best' = best
  /\ pc' = "best"
  /\ UNCHANGED <<dl_predictions, dl_again, element_list, order, systems,
                 list_of_interesting_compounds, printed, call, mask>>

\* get_most_stable applied to its own result
GetMostStableAgain ==
  /\ pc = "best"
  /\ \E again \in get_most_stable(dl_best) : dl_again' = again
  /\ pc' = "again"
  /\ UNCHANGED <<dl_predictions, dl_best, element_list, order, systems,
                 list_of_interesting_compounds, printed, call, mask>>

(***************************************************************************)
(* Element lists and assemble_list_of_systems.                             *)
(***************************************************************************)
E1(a) == <<a>>
E2(a, b) == <<a, b>>

Li == E2("L", "i")
Na == E2("N", "a")
K == E1("K")
O == E1("O")
Fe == E2("F", "e")
Ar == E2("A", "r")
F == E1("F")
Ti == E2("T", "i")
W == E1("W")
Mg == E2("M", "g")
Ca == E2("C", "a")

noble_gases == {E2("H", "e"), E2("N", "e"), Ar, E2("K", "r"), E2("X", "e")}
actinides == {E2("A", "c"), E2("T", "h"), E2("P", "a"), E1("U"), E2("N", "p"),
              E2("P", "u")}
\* Element.from_Z(x).symbol for x in range(57, 72)
lanthanides ==
  {E2("L", "a"), E2("C", "e"), E2("P", "r"), E2("N", "d"), E2("P", "m"),
   E2("S", "m"), E2("E", "u"), E2("G", "d"), E2("T", "b"), E2("D", "y"),
   E2("H", "o"), E2("E", "r"), E2("T", "m"), E2("Y", "b"), E2("L", "u")}
threed_tms == {E2("S", "c"), E2("T", "i"), E1("V"), E2("C", "r"), E2("M", "n"),
               Fe, E2("C", "o"), E2("N", "i"), E2("C", "u"), E2("Z", "n")}
\* the symbols below Z = 102 that pymatgen marks as transition metals
tms ==
  threed_tms \cup
  {E1("Y"), E2("Z", "r"), E2("N", "b"), E2("M", "o"), E2("T", "c"), E2("R", "u"),
   E2("R", "h"), E2("P", "d"), E2("A", "g"), E2("C", "d"), E2("L", "a"),
   E2("H", "f"), E2("T", "a"), E1("W"), E2("R", "e"), E2("O", "s"), E2("I", "r"),
   E2("P", "t"), E2("A", "u"), E2("H", "g"), E2("A", "c")}
metals ==
  (tms \cup {Li, Na, K})
    \cup {E2("A", "l"), E2("G", "a"), E2("I", "n"), E2("S", "n"), E2("P", "b"),
          E2("B", "i")}

chalcogens == {O, E1("S"), E2("S", "e"), E2("T", "e")}
pnictides == {E1("N"), E1("P"), E2("A", "s"), E2("S", "b")}
halogens == {F, E2("C", "l"), E2("B", "r"), E1("I")}

\* the metals HHIModel().get_hhi_production(e) is not None for
hhi_tabulated == metals \ {E2("T", "c"), E2("A", "c")}

\* HHIModel().get_hhi_production(e) for these metals: the production index
\* pymatgen tabulates
hhi_production(e) ==
  CASE e \in {Ti, E2("A", "u"), Na} -> 1100
    [] e = E2("N", "i") -> 1000
    [] e = E2("A", "g") -> 1200
    [] e \in {E2("M", "n"), E2("C", "u"), E2("Z", "n"), E2("A", "l")} -> 1600
    [] e \in {E2("C", "d"), K} -> 1700
    [] e = E2("T", "a") -> 2300
    [] e \in {Fe, E2("M", "o")} -> 2400
    [] e = E2("S", "n") -> 2600
    [] e = E2("P", "b") -> 2700
    [] e = Li -> 2900
    [] e \in {E2("C", "r"), E2("C", "o")} -> 3100
    [] e \in {E2("R", "u"), E2("R", "h"), E2("P", "d")} -> 3200
    [] e \in {E1("V"), E2("R", "e"), E2("I", "n")} -> 3300
    [] e \in {E2("Z", "r"), E2("H", "f")} -> 3400
    [] e = E2("B", "i") -> 5300
    [] e \in {E2("S", "c"), E2("O", "s"), E2("I", "r"), E2("P", "t"), E2("H", "g"),
              E2("G", "a")} -> 5500
    [] e = W -> 7000
    [] e = E2("N", "b") -> 8500
    [] e = E2("L", "a") -> 9500
    [] e = E1("Y") -> 9800

\* metals_no_highHHI: the metals with a production index, below 5000
metals_no_highHHI ==
  { e \in metals : e \in hhi_tabulated /\ hhi_production(e) < 5000 }

\* the orders the notebook enumerates: binary, ternary and quaternary systems
Orders == {2, 3, 4}

\* tuple(S) for a Python set S: the orders in which its elements can come out
set_orders(S) ==
  LET base == set_list(S)
  IN { [i \in DOMAIN base |-> p[base[i]]] : p \in Permutations(S) }

\* itertools.combinations_with_replacement(pool, r)
RECURSIVE combinations_with_replacement(_, _)
combinations_with_replacement(pool, r) ==
  IF r = 0 THEN << <<>> >>
  ELSE IF pool = <<>> THEN <<>>
  ELSE LET with == combinations_with_replacement(pool, r - 1)
       IN [i \in DOMAIN with |-> <<Head(pool)>> \o with[i]]
            \o combinations_with_replacement(Tail(pool), r)

\* itertools.combinations(pool, r): the r-length subsequences of pool, in the
\* lexicographic order of their positions
RECURSIVE combinations(_, _)
combinations(pool, r) ==
  IF r = 0 THEN << <<>> >>
  ELSE IF Len(pool) < r THEN <<>>
  ELSE LET with == combinations(Tail(pool), r - 1)
       IN [i \in DOMAIN with |-> <<Head(pool)>> \o with[i]]
            \o combinations(Tail(pool), r)

\* assemble_list_of_systems(order), element_list being iterated as pool
assemble_list_of_systems(pool, r) ==
  LET elements == combinations(pool, r)
  IN [i \in DOMAIN elements |->
        [elements |-> elements[i], system |-> join(sorted(elements[i]))]]

\* xxx_systems = assemble_list_of_systems(order)
AssembleSystems ==
  /\ pc = "elements"
  /\ \E pool \in set_orders(element_list) :
       systems' = assemble_list_of_systems(pool, order)
  /\ pc' = "systems"
  /\ UNCHANGED <<dl_predictions, dl_best, dl_again, element_list, order,
                 list_of_interesting_compounds, printed, call, mask>>

(***************************************************************************)
(* The filters.                                                            *)
(***************************************************************************)
\* all(...) in place of any(...)
f_alkali_all(els) == \A i \in DOMAIN els : els[i] \in {Li, Na, K}

\* f = lambda els: any([e in ['Li', 'Na', 'K'] for e in els])
f_alkali(els) == \E i \in DOMAIN els : els[i] \in {Li, Na, K}

\* sum([e in L for e in els])
count_in(els, L) == Cardinality({ i \in DOMAIN els : els[i] \in L })

\* f = lambda els: any([e in ['Li', 'Na', 'K'] for e in els])
\*                 and not any([e in halogens for e in els])
f_alkali_no_halogen(els) ==
  /\ \E i \in DOMAIN els : els[i] \in {Li, Na, K}
  /\ ~ \E i \in DOMAIN els : els[i] \in halogens

\* f = lambda els: any([e in chalcogens for e in els])
\*                 and any([e in halogens for e in els])
f_chalcohalide(els) ==
  /\ \E i \in DOMAIN els : els[i] \in chalcogens
  /\ \E i \in DOMAIN els : els[i] \in halogens

\* f = lambda els: any([e is 'O' for e in els]); a one-character str is one
\* object in CPython, so that "is" holds exactly of the symbol 'O'
f_oxide(els) == \E i \in DOMAIN els : els[i] = O

\* f = lambda els: any([e is 'O' for e in els])
\*                 and sum([e in metals for e in els]) == (len(els) - 1)
f_metal_oxide(els) ==
  /\ \E i \in DOMAIN els : els[i] = O
  /\ count_in(els, metals) = Len(els) - 1

\* f = lambda els: any([e is 'O' for e in els])
\*                 and sum([e in threed_tms for e in els]) == (len(els) - 1)
f_threed_oxide(els) ==
  /\ \E i \in DOMAIN els : els[i] = O
  /\ count_in(els, threed_tms) = Len(els) - 1

\* every symbol that is not a chalcogen, pnictide, halogen or noble gas passes
f_intermetallic_no_nonmetal(els) ==
  \A i \in DOMAIN els :
    els[i] \notin (((chalcogens \cup pnictides) \cup halogens) \cup noble_gases)

\* f = lambda els: all([e in metals for e in els])
f_intermetallic(els) == \A i \in DOMAIN els : els[i] \in metals

\* f = lambda els: all([e in metals_no_highHHI for e in els])
f_low_risk(els) == \A i \in DOMAIN els : els[i] \in metals_no_highHHI

\* f = lambda els: all([e in metals_no_highHHI for e in els])
\*                 and sum([e in threed_tms for e in els]) > 1
f_low_risk_threed(els) ==
  /\ \A i \in DOMAIN els : els[i] \in metals_no_highHHI
  /\ count_in(els, threed_tms) > 1

\* the filters run by the notebook model, by name
Filters == {"alkali", "intermetallic"}

\* all the filters the notebook defines, by name
AllFilters ==
  {"alkali", "alkali_no_halogen", "chalcohalide", "oxide", "metal_oxide",
   "threed_oxide", "intermetallic", "low_risk", "low_risk_threed"}

\* f(els) for the filter named f
apply_f(f, els) ==
  CASE f = "alkali" -> f_alkali(els)
    [] f = "alkali_no_halogen" -> f_alkali_no_halogen(els)
    [] f = "chalcohalide" -> f_chalcohalide(els)
    [] f = "oxide" -> f_oxide(els)
    [] f = "metal_oxide" -> f_metal_oxide(els)
    [] f = "threed_oxide" -> f_threed_oxide(els)
    [] f = "intermetallic" -> f_intermetallic(els)
    [] f = "low_risk" -> f_low_risk(els)
    [] f = "low_risk_threed" -> f_low_risk_threed(els)

\* systems['elements'].apply(f), for one of the filters of the notebook
ApplyFilter ==
  /\ pc = "systems"
  /\ \E f \in AllFilters :
       /\ mask' = [i \in DOMAIN systems |-> apply_f(f, systems[i].elements)]
       /\ call' = [f |-> f]
  /\ pc' = "mask"
  /\ UNCHANGED <<dl_predictions, dl_best, dl_again, element_list, order, systems,
                 list_of_interesting_compounds, printed>>

(***************************************************************************)
(* run_filter.                                                             *)
(***************************************************************************)
\* the values of ntop the model calls run_filter with; the notebook's calls
\* leave it at its default, 2
NTops == {1, 2, 3}

\* the positions of the rows of the candidate table whose elements pass f
passing(f, candidates) ==
  { i \in DOMAIN candidates : apply_f(f, candidates[i].elements) }

\* possible_systems = set(systems[systems['elements'].apply(f)]['system'])
possible_systems(f, candidates) ==
  { candidates[i].system : i \in passing(f, candidates) }

\* the rows whose own elements pass f, the candidate table being left aside
results_by_predicate(f, candidates, compounds) ==
  RowsAt(compounds, { i \in DOMAIN compounds :
                        apply_f(f, findall(compounds[i].system)) })

\* the rows whose system is not in possible_systems
results_not_in(f, candidates, compounds) ==
  RowsAt(compounds, { i \in DOMAIN compounds :
                        compounds[i].system \notin possible_systems(f, candidates) })

\* results = compounds[compounds['system'].apply(lambda x: x in possible_systems)]
results(f, candidates, compounds) ==
  RowsAt(compounds, { i \in DOMAIN compounds :
                        compounds[i].system \in possible_systems(f, candidates) })

\* t.head(n)
head(t, n) == SubSeq(t, 1, IF Len(t) < n THEN Len(t) ELSE n)

\* top_comps = results.head(2)['composition']: ntop is not used
top_comps(f, candidates, compounds, ntop) ==
  LET top == head(results(f, candidates, compounds), 2)
  IN [i \in DOMAIN top |-> top[i].composition]

\* the new compounds put in front of the list
extend_front(list, xs) == xs \o list

\* list.extend(xs)
extend(list, xs) == list \o xs

\* run_filter(f, systems, dl_best, ntop).  The calls are those on a candidate
\* table and a table of predictions that have rows, as the tables of the
\* notebook do: on a table without rows the mask is an empty Series, which
\* pandas does not take for a boolean mask.
RunFilter ==
  /\ pc = "systems"
  /\ Len(printed) < MaxCalls
  /\ systems # <<>>
  /\ dl_best # <<>>
  /\ \E f \in Filters, ntop \in NTops :
       LET top == top_comps(f, systems, dl_best, ntop)
       IN /\ list_of_interesting_compounds'
               = extend(list_of_interesting_compounds, top)
          /\ printed' = Append(printed,
                               [found |-> Len(results(f, systems, dl_best)),
                                top |-> top])
          /\ call' = [f |-> f, ntop |-> ntop]
  /\ UNCHANGED <<pc, dl_predictions, dl_best, dl_again, element_list, order,
                 systems, mask>>

(***************************************************************************)
(* The steps of the notebook between get_most_stable and the filters.      *)
(***************************************************************************)
\* x.get_integer_formula_and_factor()[0]: the formula pymatgen prints for the
\* composition, kept as a value of its own, distinct from the string read
integer_formula(c) == [integer_formula_of |-> c]

\* data['composition'] = data['comp_obj'].apply(...) for the tables of dl_best
Prettify ==
  /\ pc = "best"
  /\ dl_best' = [i \in DOMAIN dl_best |->
                   [dl_best[i] EXCEPT !.composition = integer_formula(@)]]
  /\ pc' = "pretty"
  /\ UNCHANGED <<dl_predictions, dl_again, element_list, order, systems,
                 list_of_interesting_compounds, printed, call, mask>>

\* element_list: the symbols found in the compositions, less the noble gases,
\* the actinides and the lanthanides
BuildElementList ==
  /\ pc = "pretty"
  /\ element_list' =
       ((UNION { Range(findall(dl_predictions[i].composition)) :
                   i \in DOMAIN dl_predictions }
           \ noble_gases) \ actinides) \ lanthanides
  /\ pc' = "elements"
  /\ UNCHANGED <<dl_predictions, dl_best, dl_again, order, systems,
                 list_of_interesting_compounds, printed, call, mask>>

(***************************************************************************)
(* The specification of get_elems on its own: two arbitrary composition    *)
(* strings are tagged with their system.                                   *)
(***************************************************************************)
ElemsAlphabet == {"A", "F", "e", "2"}

InitElems ==
  /\ pc = "loaded"
  /\ \E a, b \in StringsUpTo(ElemsAlphabet, MaxLen) :
       dl_predictions =
         <<[index |-> 0, composition |-> a, stability_predicted |-> 0],
           [index |-> 1, composition |-> b, stability_predicted |-> 0]>>
  /\ dl_best = <<>>
  /\ dl_again = <<>>
  /\ element_list = {}
  /\ order = 2
  /\ systems = <<>>
  /\ list_of_interesting_compounds = <<>>
  /\ printed = <<>>
  /\ call = <<>>
  /\ mask = <<>>

NextElems == TagSystem

SpecElems == InitElems /\ [][NextElems]_vars

\* the sequence xs of strings is strictly increasing
StrictlySorted(xs) == \A i \in 1..(Len(xs) - 1) : str_lt(xs[i], xs[i + 1])

\* key is the sorted concatenation of the distinct element symbols of s:
\* read back token by token it is exactly the symbols of s, in increasing order
IsSystemKeyOf(key, s) ==
  /\ join(findall(key)) = key
  /\ Range(findall(key)) = Range(findall(s))
  /\ StrictlySorted(findall(key))

\* C5: the system key depends only on the set of element symbols of the
\* composition: two compositions with the same set of symbols get the same
\* key, the key is the sorted concatenation of the distinct symbols, and
\* get_elems('AlFeFe2') = get_elems('FeAlFe') = 'AlFe'.
C5_KeyDependsOnElementSet ==
  /\ pc = "tagged" =>
       /\ \A i, j \in DOMAIN dl_predictions :
            Range(findall(dl_predictions[i].composition))
              = Range(findall(dl_predictions[j].composition))
            => dl_predictions[i].system = dl_predictions[j].system
       /\ \A i \in DOMAIN dl_predictions :
            IsSystemKeyOf(dl_predictions[i].system, dl_predictions[i].composition)
  /\ get_elems(<<"A", "l", "F", "e", "F", "e", "2">>) = <<"A", "l", "F", "e">>
  /\ get_elems(<<"F", "e", "A", "l", "F", "e">>) = <<"A", "l", "F", "e">>

\* two compositions that differ as strings, with a repeated symbol and a digit,
\* have been tagged with the same two-element system
C5_Witness ==
  /\ pc = "tagged"
  /\ dl_predictions[1].composition = <<"F", "A", "F">>
  /\ dl_predictions[2].composition = <<"A", "2", "F">>
  /\ dl_predictions[1].system = <<"A", "F">>
  /\ dl_predictions[2].system = <<"A", "F">>

(***************************************************************************)
(* The specification of get_most_stable: every table of at most MaxRows    *)
(* rows over a few compositions is tagged and deduplicated, and the result *)
(* is deduplicated once more.                                              *)
(***************************************************************************)
Li2O == <<"L", "i", "2", "O">>
LiO == <<"L", "i", "O">>
FeO == <<"F", "e", "O">>

DedupCompositions == {Li2O, LiO, FeO}

InitDedup ==
  /\ pc = "loaded"
  /\ dl_predictions \in TablesOf(DedupCompositions, 0..MaxRows)
  /\ dl_best = <<>>
  /\ dl_again = <<>>
  /\ element_list = {}
  /\ order = 2
  /\ systems = <<>>
  /\ list_of_interesting_compounds = <<>>
  /\ printed = <<>>
  /\ call = <<>>
  /\ mask = <<>>

NextDedup == TagSystem \/ GetMostStable \/ GetMostStableAgain

SpecDedup == InitDedup /\ [][NextDedup]_vars

SystemsOf(t) == { t[i].system : i \in DOMAIN t }

\* the rows of t whose system is sys
RowsOfSystem(t, sys) == { t[i] : i \in { j \in DOMAIN t : t[j].system = sys } }

\* the rows of system sys with the least stability_predicted of that system
MostStableRows(t, sys) ==
  { r \in RowsOfSystem(t, sys) :
      \A q \in RowsOfSystem(t, sys) : r.stability_predicted <= q.stability_predicted }

Deduplicated == pc \in {"best", "again"}

\* C1: get_most_stable returns exactly one row for every system of the input
\* and no other, and no input row of that system has a strictly lower
\* stability_predicted than the row returned.
C1_OneMostStableRowPerSystem ==
  Deduplicated =>
    /\ SystemsOf(dl_best) = SystemsOf(dl_predictions)
    /\ \A i, j \in DOMAIN dl_best :
         dl_best[i].system = dl_best[j].system => i = j
    /\ \A i \in DOMAIN dl_best : \A k \in DOMAIN dl_predictions :
         dl_predictions[k].system = dl_best[i].system
         => dl_best[i].stability_predicted <= dl_predictions[k].stability_predicted

\* a system read with a less stable row first and a more stable row second
\* has been reduced to its more stable row
C1_Witness ==
  /\ pc = "best"
  /\ Len(dl_predictions) = 3
  /\ dl_predictions[1].system = dl_predictions[2].system
  /\ dl_predictions[1].stability_predicted > dl_predictions[2].stability_predicted
  /\ dl_predictions[3].system # dl_predictions[1].system
  /\ Len(dl_best) = 2

\* C2 as stated: of the rows of a system that share the minimum, the one
\* read first is the one kept.
C2_FirstOccurrenceWins ==
  Deduplicated =>
    \A i \in DOMAIN dl_best :
      \A r \in MostStableRows(dl_predictions, dl_best[i].system) :
        dl_best[i].index <= r.index

\* C2, amended: the row kept for a system is one of the rows of the input
\* that attain the minimum of that system (the same label and composition);
\* which of several such rows is kept is not determined.
C2_KeepsSomeMostStableRow ==
  Deduplicated =>
    \A i \in DOMAIN dl_best :
      dl_best[i] \in MostStableRows(dl_predictions, dl_best[i].system)

\* two rows of one system share the minimum and the one read second is kept
C2_Witness ==
  /\ pc = "best"
  /\ Len(dl_predictions) = 2
  /\ dl_predictions[1].system = dl_predictions[2].system
  /\ dl_predictions[1].stability_predicted = dl_predictions[2].stability_predicted
  /\ dl_predictions[1].composition # dl_predictions[2].composition
  /\ dl_best = <<dl_predictions[2]>>

\* C3 as stated: deduplicating the deduplicated table returns the same table,
\* row for row.
C3_Idempotent == pc = "again" => dl_again = dl_best

\* C3, amended: deduplicating the deduplicated table returns the same rows,
\* each once, in non-decreasing order of stability_predicted; rows of equal
\* stability_predicted may have changed places.
C3_IdempotentUpToTies ==
  pc = "again" =>
    /\ Len(dl_again) = Len(dl_best)
    /\ Range(dl_again) = Range(dl_best)
    /\ \A i, j \in DOMAIN dl_again :
         i < j => dl_again[i].stability_predicted <= dl_again[j].stability_predicted
    /\ \A i, j \in DOMAIN dl_again :
         dl_again[i].stability_predicted # dl_again[j].stability_predicted
         => dl_again[i] = dl_best[i]

\* a table of two systems of different stability has been deduplicated twice
C3_Witness ==
  /\ pc = "again"
  /\ Len(dl_best) = 2
  /\ dl_best[1].stability_predicted < dl_best[2].stability_predicted
  /\ Len(dl_predictions) = 3
  /\ dl_again = dl_best

(***************************************************************************)
(* The specification of assemble_list_of_systems: every element list over  *)
(* five elements, iterated in every order, for every order of system.      *)
(***************************************************************************)
EnumElements == {Li, Na, K, O, Fe}

InitEnum ==
  /\ pc = "elements"
  /\ dl_predictions = <<>>
  /\ dl_best = <<>>
  /\ dl_again = <<>>
  /\ element_list \in SUBSET EnumElements
  /\ order \in Orders
  /\ systems = <<>>
  /\ list_of_interesting_compounds = <<>>
  /\ printed = <<>>
  /\ call = <<>>
  /\ mask = <<>>

NextEnum == AssembleSystems

SpecEnum == InitEnum /\ [][NextEnum]_vars

\* the number of k-element subsets of an n-element set
RECURSIVE binomial(_, _)
binomial(n, k) ==
  IF k = 0 THEN 1
  ELSE IF n = 0 THEN 0
  ELSE binomial(n - 1, k - 1) + binomial(n - 1, k)

\* C6: for n allowed elements and order k the table has exactly C(n, k)
\* rows, every row holds k pairwise distinct allowed elements, and no two
\* rows have the same system key.
C6_EnumeratesCombinations ==
  pc = "systems" =>
    /\ Len(systems) = binomial(Cardinality(element_list), order)
    /\ \A i \in DOMAIN systems :
         /\ Len(systems[i].elements) = order
         /\ Range(systems[i].elements) \subseteq element_list
         /\ \A a, b \in DOMAIN systems[i].elements :
              systems[i].elements[a] = systems[i].elements[b] => a = b
    /\ \A i, j \in DOMAIN systems :
         systems[i].system = systems[j].system => i = j

\* the ternary systems of four elements have been enumerated
C6_Witness ==
  /\ pc = "systems"
  /\ Cardinality(element_list) = 4
  /\ order = 3
  /\ Len(systems) = 4

Scenario == pc = "systems" /\ element_list = {Li, Na, K, O, Fe} /\ order = 2

\* C10 as stated: with {Li, Na, K, O, Fe} and order 2 there are 10 systems,
\* "LiO" and "FeK" among them, and the alkali filter passes 6 of them, all
\* but "FeO".
C10_ScenarioSixMatches ==
  Scenario =>
    /\ Len(systems) = 10
    /\ {<<"L", "i", "O">>, <<"F", "e", "K">>} \subseteq SystemsOf(systems)
    /\ Cardinality(passing("alkali", systems)) = 6
    /\ { systems[i].system : i \in DOMAIN systems \ passing("alkali", systems) }
         = {<<"F", "e", "O">>}

\* C10, amended: with {Li, Na, K, O, Fe} and order 2 there are 10 systems,
\* "LiO" and "FeK" among them, and the alkali filter passes 9 of them, all
\* but "FeO".
C10_ScenarioNineMatches ==
  Scenario =>
    /\ Len(systems) = 10
    /\ {<<"L", "i", "O">>, <<"F", "e", "K">>} \subseteq SystemsOf(systems)
    /\ Cardinality(passing("alkali", systems)) = 9
    /\ { systems[i].system : i \in DOMAIN systems \ passing("alkali", systems) }
         = {<<"F", "e", "O">>}

\* the scenario's table, with the pair (K, Fe) enumerated in that order
C10_Witness ==
  /\ Scenario
  /\ \E i \in DOMAIN systems :
       systems[i] = [elements |-> <<K, Fe>>, system |-> <<"F", "e", "K">>]

(***************************************************************************)
(* The specification of the notebook: a file of ternary compounds is       *)
(* loaded, tagged, deduplicated and printed, the ternary systems of its    *)
(* elements are enumerated and up to MaxCalls filters are run.             *)
(***************************************************************************)
LiFeO2 == <<"L", "i", "F", "e", "O", "2">>
Li2FeO3 == <<"L", "i", "2", "F", "e", "O", "3">>
NaFeO2 == <<"N", "a", "F", "e", "O", "2">>
LiNaFe == <<"L", "i", "N", "a", "F", "e">>
ArLiO == <<"A", "r", "L", "i", "O">>

\* the rows a file of the model may hold, in the order it holds them: two
\* compounds of one system, two systems of equal stability, an intermetallic
\* and a compound of a noble gas
PipelineRows ==
  <<[composition |-> LiFeO2, stability_predicted |-> 1],
    [composition |-> Li2FeO3, stability_predicted |-> 0],
    [composition |-> NaFeO2, stability_predicted |-> 0],
    [composition |-> LiNaFe, stability_predicted |-> 1],
    [composition |-> ArLiO, stability_predicted |-> 0]>>

\* the files that hold some of these rows, labelled 0, 1, ... as read
PipelineTables ==
  { LET rows == RowsAt(PipelineRows, S)
    IN [i \in DOMAIN rows |->
          [index |-> i - 1,
           composition |-> rows[i].composition,
           stability_predicted |-> rows[i].stability_predicted]]
    : S \in (SUBSET DOMAIN PipelineRows) \ {{}} }

Init ==
  /\ pc = "loaded"
  /\ dl_predictions \in PipelineTables
  /\ dl_best = <<>>
  /\ dl_again = <<>>
  /\ element_list = {}
  /\ order = 3
  /\ systems = <<>>
  /\ list_of_interesting_compounds = <<>>
  /\ printed = <<>>
  /\ call = <<>>
  /\ mask = <<>>

Next ==
  \/ TagSystem
  \/ GetMostStable
  \/ Prettify
  \/ BuildElementList
  \/ AssembleSystems
  \/ RunFilter

Spec == Init /\ [][Next]_vars

Called == printed # <<>>

\* what the latest call of run_filter printed
LastPrinted == printed[Len(printed)]

Min(a, b) == IF a < b THEN a ELSE b

\* C4: the compounds a call of run_filter selects and appends are the first
\* min(ntop, number of matches) matching rows, whatever ntop is.
C4_SelectsFirstNtop ==
  Called =>
    LET matches == results(call.f, systems, dl_best)
        n == Min(call.ntop, Len(matches))
    IN /\ LastPrinted.top = [i \in 1..n |-> matches[i].composition]
       /\ Len(list_of_interesting_compounds) >= n
       /\ SubSeq(list_of_interesting_compounds,
                 Len(list_of_interesting_compounds) - n + 1,
                 Len(list_of_interesting_compounds)) = LastPrinted.top

\* the concatenation of the top compounds of the calls 1..n
RECURSIVE TopsUpTo(_)
TopsUpTo(n) == IF n = 0 THEN <<>> ELSE TopsUpTo(n - 1) \o printed[n].top

\* C7 as stated: after three calls the list has six elements, two from each
\* call in the order of the calls.
C7_SixAfterThreeCalls ==
  Len(printed) = 3 =>
    /\ Len(list_of_interesting_compounds) = 6
    /\ list_of_interesting_compounds
         = printed[1].top \o printed[2].top \o printed[3].top

\* C7, amended: the list is what the calls selected, in the order of the
\* calls, duplicates kept; a call contributes two compounds when it has at
\* least two matches and as many as it has matches otherwise, so three calls
\* leave at most six elements.
C7_AppendsInCallOrder ==
  /\ list_of_interesting_compounds = TopsUpTo(Len(printed))
  /\ \A i \in DOMAIN printed : Len(printed[i].top) = Min(2, printed[i].found)
  /\ Len(list_of_interesting_compounds) <= 2 * Len(printed)

\* three calls with at least two matches each have left six elements, the
\* compounds of the first call again at the third and fifth place
C7_Witness ==
  /\ Len(printed) = 3
  /\ \A i \in 1..3 : printed[i].found >= 2
  /\ Len(list_of_interesting_compounds) = 6
  /\ list_of_interesting_compounds[3] = list_of_interesting_compounds[1]
  /\ list_of_interesting_compounds[5] = list_of_interesting_compounds[1]
  /\ list_of_interesting_compounds[2] # list_of_interesting_compounds[1]

\* C8: the number of matches run_filter reports is at most the number of
\* candidate systems that pass the filter and at most the number of rows of
\* the deduplicated table.
C8_MatchesBounded ==
  Called =>
    /\ LastPrinted.found <= Cardinality(passing(call.f, systems))
    /\ LastPrinted.found <= Len(dl_best)

\* a file with two compounds of one system: as many matches as candidate
\* systems that pass, fewer than rows read
C8_Witness ==
  /\ Called
  /\ Len(dl_predictions) > Len(dl_best)
  /\ LastPrinted.found = Cardinality(passing(call.f, systems))
  /\ LastPrinted.found >= 1

\* no candidate system passes f, or no row of dl_best is of a system that does
NothingMatches(f) ==
  \/ passing(f, systems) = {}
  \/ \A i \in DOMAIN dl_best : dl_best[i].system \notin possible_systems(f, systems)

MatchingRows(f) ==
  { dl_best[i] : i \in { j \in DOMAIN dl_best :
                           dl_best[j].system \in possible_systems(f, systems) } }

SelectedRows ==
  { r \in MatchingRows(call.f) : r.composition \in Range(LastPrinted.top) }

\* C12: dl_best is in non-decreasing order of stability_predicted, and the
\* compounds a call of run_filter selects are the most stable matches: no
\* matching row left out has a strictly lower stability_predicted than a
\* row selected.
C12_SelectsMostStableMatches ==
  /\ pc \in {"best", "pretty", "elements", "systems"} =>
       \A i, j \in DOMAIN dl_best :
         i < j => dl_best[i].stability_predicted <= dl_best[j].stability_predicted
  /\ Called =>
       /\ Cardinality(SelectedRows) = Len(LastPrinted.top)
       /\ \A r \in MatchingRows(call.f) \ SelectedRows : \A q \in SelectedRows :
            ~ (r.stability_predicted < q.stability_predicted)

\* a call with three matches has left out the least stable of them
C12_Witness ==
  /\ Called
  /\ LastPrinted.found = 3
  /\ Cardinality(SelectedRows) = 2
  /\ \E r \in MatchingRows(call.f) \ SelectedRows : \A q \in SelectedRows :
       r.stability_predicted > q.stability_predicted

\* C13: every compound a call of run_filter adds to the list is the
\* composition of a row of dl_best whose system is the key of a candidate
\* system that passes the filter of the call, the list it finds is kept, and
\* no compound with an element outside element_list (a noble gas, a
\* lanthanide, an actinide) is ever added.
C13_CollectsOnlyPassingCandidates ==
  [][ printed' # printed =>
        LET old == Len(list_of_interesting_compounds)
            new == Len(list_of_interesting_compounds')
        IN /\ old <= new
           /\ SubSeq(list_of_interesting_compounds', 1, old)
                = list_of_interesting_compounds
           /\ \A k \in (old + 1)..new :
                \E j \in DOMAIN dl_best :
                  /\ dl_best[j].composition = list_of_interesting_compounds'[k]
                  /\ \E i \in DOMAIN systems :
                       /\ systems[i].system = dl_best[j].system
                       /\ apply_f(call'.f, systems[i].elements)
                  /\ Range(findall(dl_best[j].system)) \subseteq element_list
    ]_vars

\* two calls have collected compounds while the most stable row of dl_best,
\* a compound of argon and lithium, is not in the list
C13_Witness ==
  /\ Len(printed) = 2
  /\ Len(list_of_interesting_compounds) >= 3
  /\ Len(dl_best) >= 3
  /\ dl_best[1].composition = integer_formula(ArLiO)
  /\ call.f = "alkali"
  /\ \A k \in DOMAIN list_of_interesting_compounds :
       list_of_interesting_compounds[k] # integer_formula(ArLiO)

(***************************************************************************)
(* The specification of the filters: the systems of every list of four     *)
(* elements, two of which (Mg, Ca) are in none of the notebook's element   *)
(* lists, are enumerated and one of the filters is applied to them.        *)
(***************************************************************************)
PredicateElements == {Li, O, F, Fe, Ti, W, Mg, Ca}

InitPredicates ==
  /\ pc = "elements"
  /\ dl_predictions = <<>>
  /\ dl_best = <<>>
  /\ dl_again = <<>>
  /\ element_list \in { S \in SUBSET PredicateElements : Cardinality(S) = 4 }
  /\ order \in Orders
  /\ systems = <<>>
  /\ list_of_interesting_compounds = <<>>
  /\ printed = <<>>
  /\ call = <<>>
  /\ mask = <<>>

NextPredicates == AssembleSystems \/ ApplyFilter

SpecPredicates == InitPredicates /\ [][NextPredicates]_vars

\* the symbols that occur in one of the element lists of the notebook
ReferenceSymbols ==
  UNION {noble_gases, {Li, Na, K}, threed_tms, actinides, lanthanides,
         chalcogens, pnictides, halogens, tms, metals, metals_no_highHHI}

\* the symbols of els that occur in an element list, in their order
Recognized(els) == RowsAt(els, { i \in DOMAIN els : els[i] \in ReferenceSymbols })

CountOf(els, L) == Cardinality({ i \in DOMAIN els : els[i] \in L })

\* the value of filter f on els when the symbols of no element list count as
\* members of none: they add nothing to any(...) and to sum(...), and all(...)
\* over a list asks every symbol of els to be in the list
ValueOnRecognized(f, els) ==
  LET known == Recognized(els)
  IN CASE f = "alkali" -> CountOf(known, {Li, Na, K}) > 0
       [] f = "alkali_no_halogen" ->
            CountOf(known, {Li, Na, K}) > 0 /\ CountOf(known, halogens) = 0
       [] f = "chalcohalide" ->
            CountOf(known, chalcogens) > 0 /\ CountOf(known, halogens) > 0
       [] f = "oxide" -> CountOf(known, {O}) > 0
       [] f = "metal_oxide" ->
            CountOf(known, {O}) > 0 /\ CountOf(known, metals) = Len(els) - 1
       [] f = "threed_oxide" ->
            CountOf(known, {O}) > 0 /\ CountOf(known, threed_tms) = Len(els) - 1
       [] f = "intermetallic" -> CountOf(known, metals) = Len(els)
       [] f = "low_risk" -> CountOf(known, metals_no_highHHI) = Len(els)
       [] f = "low_risk_threed" ->
            /\ CountOf(known, metals_no_highHHI) = Len(els)
            /\ CountOf(known, threed_tms) > 1

\* C11: a filter applied to a tuple with a symbol of no element list returns
\* a boolean, the one it returns when that symbol is a member of no list; in
\* particular a filter that asks all the elements to be metals returns False.
C11_UnrecognizedSymbolDoesNotMatch ==
  pc = "mask" =>
    \A i \in DOMAIN systems :
      LET els == systems[i].elements
      IN Recognized(els) # els =>
           /\ mask[i] \in BOOLEAN
           /\ mask[i] = ValueOnRecognized(call.f, els)
           /\ call.f \in {"intermetallic", "low_risk", "low_risk_threed"}
                => mask[i] = FALSE

\* the alkali filter has passed a system of Li, Mg and a metal, and the
\* intermetallic filter applied to it would not
C11_Witness ==
  /\ pc = "mask"
  /\ call.f = "alkali"
  /\ \E i \in DOMAIN systems :
       /\ Range(systems[i].elements) = {Li, Mg, Fe}
       /\ mask[i] = TRUE
       /\ ~ f_intermetallic(systems[i].elements)

====
